---- MODULE Spec2Model ----
(***************************************************************************)
(* Model of the structural YAML diff engine of yamldiff (package           *)
(* pkg/diff): CompareAst, compareNodes, compareMappingNodes,               *)
(* compareSequenceNodes, ignoreIndexes, DocDiffs.Less / sort.Sort and      *)
(* FileDiffs.HasDiff; of Compare / CompareFile with a parser that may      *)
(* fail; and of the command (cmd/root.go: runCommand) with the plain       *)
(* formatter (formatter.formatFileDiffs).                                  *)
(*                                                                         *)
(* An ast.Node is a record                                                 *)
(*   [Type, Value, Line, Path, Values]                                     *)
(* Type   : the ast.NodeType ("Mapping", "Sequence", "String", ...)        *)
(* Value  : the canonical spelling of the scalar's parsed Go value         *)
(*          (uint64 1 is "1", bool true is "true"); "" for collections.    *)
(*          Two scalars of one Type have equal Go values iff their Value   *)
(*          strings are equal.                                             *)
(* Line   : node.GetToken().Position.Line                                  *)
(* Path   : node.GetPath() as the sequence of its segments, "$" first      *)
(* Values : the children: the entries of a Sequence; the MappingValue      *)
(*          nodes of a Mapping; <<key, value>> of a MappingValue.          *)
(* A nil ast.Node is the record Nil.                                       *)
(***************************************************************************)
EXTENDS Integers, Sequences, FiniteSets, TLC

(***************************************************************************)
(* Bounds of the model.                                                    *)
(***************************************************************************)
MaxSeqLen == 3     \* enumerated integer sequences have at most this length
MaxDocs == 2       \* enumerated document streams have at most this length

(***************************************************************************)
(* DiffType (types.go): Added = iota, Deleted, Modified.                   *)
(***************************************************************************)
Added == 0
Deleted == 1
Modified == 2

Nil == [Type |-> "nil", Value |-> "", Line |-> 0, Path |-> <<>>, Values |-> <<>>]

(***************************************************************************)
(* Constructors of values as they stand in the YAML text, before the       *)
(* parser has assigned positions and paths.                                *)
(***************************************************************************)
Scalar(t, v) == [Type |-> t, Value |-> v, Line |-> 0, Path |-> <<>>, Values |-> <<>>]
IntegerNode(i) == Scalar("Integer", ToString(i))
StringNode(s) == Scalar("String", s)
SequenceNode(vs) == [Type |-> "Sequence", Value |-> "", Line |-> 0, Path |-> <<>>, Values |-> vs]
MappingValueNode(k, v) == [Type |-> "MappingValue", Value |-> "", Line |-> 0, Path |-> <<>>, Values |-> <<StringNode(k), v>>]
MappingNode(mvs) == [Type |-> "Mapping", Value |-> "", Line |-> 0, Path |-> <<>>, Values |-> mvs]

\* MappingValueNode.Key and MappingValueNode.Value
Key(mv) == mv.Values[1]
MVValue(mv) == mv.Values[2]
\* values.Key.String(): the text of a mapping key
KeyString(mv) == Key(mv).Value

IsCollection(n) == n.Type \in {"Mapping", "Sequence"}

RECURSIVE SumTo(_, _)
SumTo(f, n) == IF n = 0 THEN 0 ELSE f[n] + SumTo(f, n - 1)

(***************************************************************************)
(* The parser (parser.ParseBytes, an external collaborator): it gives      *)
(* every node its path and the line of its first token.  Two layouts are   *)
(* modelled: block style (one mapping entry or sequence entry per line, a  *)
(* non-empty collection under a mapping key starts on the line after the   *)
(* key) and flow style (the whole document on one line).                   *)
(***************************************************************************)
RECURSIVE Rows(_)
Rows(n) ==
    IF ~IsCollection(n) \/ Len(n.Values) = 0 THEN 1
    ELSE IF n.Type = "Sequence"
         THEN SumTo([i \in 1..Len(n.Values) |-> Rows(n.Values[i])], Len(n.Values))
         ELSE SumTo([i \in 1..Len(n.Values) |->
                       LET v == MVValue(n.Values[i])
                       IN IF IsCollection(v) /\ Len(v.Values) > 0 THEN 1 + Rows(v) ELSE 1],
                    Len(n.Values))

RECURSIVE Parse(_, _, _, _)
Parse(n, path, line, flow) ==
    IF n.Type = "Sequence" THEN
        LET rows == [i \in 1..Len(n.Values) |-> Rows(n.Values[i])]
        IN [n EXCEPT !.Line = line, !.Path = path,
                     !.Values = [i \in 1..Len(n.Values) |->
                         Parse(n.Values[i],
                               Append(path, "[" \o ToString(i - 1) \o "]"),
                               IF flow THEN line ELSE line + SumTo(rows, i - 1),
                               flow)]]
    ELSE IF n.Type = "Mapping" THEN
        LET nested(i) == LET v == MVValue(n.Values[i])
                         IN IsCollection(v) /\ Len(v.Values) > 0
            rows == [i \in 1..Len(n.Values) |->
                        IF nested(i) THEN 1 + Rows(MVValue(n.Values[i])) ELSE 1]
        IN [n EXCEPT !.Line = line, !.Path = path,
                     !.Values = [i \in 1..Len(n.Values) |->
                         LET mv == n.Values[i]
                             p == Append(path, "." \o KeyString(mv))
                             kl == IF flow THEN line ELSE line + SumTo(rows, i - 1)
                             vl == IF flow \/ ~nested(i) THEN kl ELSE kl + 1
                         IN [mv EXCEPT !.Line = kl, !.Path = p,
                                       !.Values = << [Key(mv) EXCEPT !.Line = kl, !.Path = p],
                                                     Parse(MVValue(mv), p, vl, flow) >>]]]
    ELSE [n EXCEPT !.Line = line, !.Path = path]

\* A document body: nil for a document without content.
ParseDoc(n, flow) == IF n = Nil THEN Nil ELSE Parse(n, <<"$">>, 1, flow)

\* ast.File.Docs: the bodies of the documents of a stream.
ParseFile(docs, flow) == [i \in 1..Len(docs) |-> ParseDoc(docs[i], flow)]

(***************************************************************************)
(* types.go: Diff, newDiff, Diff.Type, Diff.Path.                          *)
(***************************************************************************)
\* the two nodes exchanged
newDiff_swapped(left, right) == [leftNode |-> right, rightNode |-> left]

newDiff(left, right) == [leftNode |-> left, rightNode |-> right]

Type(d) ==
    IF d.leftNode = Nil THEN Added
    ELSE IF d.rightNode = Nil THEN Deleted
    ELSE Modified

\* getNodePath: the node's path without the leading dollar sign
getNodePath(node) ==
    IF node = Nil THEN <<>>
    ELSE IF Len(node.Path) > 0 /\ node.Path[1] = "$" THEN Tail(node.Path)
    ELSE node.Path

\* the path of the left node, whatever the type
DiffPath_leftOnly(d) == getNodePath(d.leftNode)

DiffPath(d) == IF Type(d) = Added THEN getNodePath(d.rightNode) ELSE getNodePath(d.leftNode)

(***************************************************************************)
(* compare.go: the node comparator.                                        *)
(*                                                                         *)
(* A nil []*Diff and an empty one are both <<>>: the code only ever takes  *)
(* len() of them or appends them.                                          *)
(*                                                                         *)
(* order is the order in which this run's `range` statements visit the map *)
(* keys: a sequence holding every key once.  Go leaves it unspecified.     *)
(***************************************************************************)
RECURSIVE Concat(_)
Concat(ss) == IF Len(ss) = 0 THEN <<>> ELSE Head(ss) \o Concat(Tail(ss))

\* the elements of sequence s that are in keys, in the order of s
RECURSIVE SelectKeys(_, _)
SelectKeys(s, keys) ==
    IF Len(s) = 0 THEN <<>>
    ELSE IF Head(s) \in keys THEN <<Head(s)>> \o SelectKeys(Tail(s), keys)
    ELSE SelectKeys(Tail(s), keys)

\* the value of a String node only
stringNodeValue_stringOnly(node) ==
    IF node.Type = "String" THEN node.Value ELSE ""

stringNodeValue(node) ==
    IF node.Type \in {"String", "Literal"} THEN node.Value ELSE ""

\* a string is comparable with a String node only
comparableNodes_stringOnly(leftNode, rightNode) ==
    IF leftNode.Type \in {"String", "Literal"}
    THEN rightNode.Type = "String"
    ELSE leftNode.Type = rightNode.Type

\* Integer and Float count as one kind
comparableNodes_numeric(leftNode, rightNode) ==
    IF leftNode.Type \in {"String", "Literal"}
    THEN rightNode.Type = "String" \/ rightNode.Type = "Literal"
    ELSE \/ leftNode.Type = rightNode.Type
         \/ {leftNode.Type, rightNode.Type} = {"Integer", "Float"}

\* without the Literal case for the left node
comparableNodes_leftString(leftNode, rightNode) ==
    IF leftNode.Type = "String"
    THEN rightNode.Type = "String" \/ rightNode.Type = "Literal"
    ELSE leftNode.Type = rightNode.Type

comparableNodes(leftNode, rightNode) ==
    IF leftNode.Type \in {"String", "Literal"}
    THEN rightNode.Type = "String" \/ rightNode.Type = "Literal"
    ELSE leftNode.Type = rightNode.Type

wrapMappingValueNode(node) ==
    IF node.Type = "MappingValue"
    THEN [Type |-> "Mapping", Value |-> "", Line |-> node.Line, Path |-> node.Path,
          Values |-> <<node>>]
    ELSE node

\* keyValueMap[values.Key.String()] = values, a later entry replacing an earlier one
mappingValueNodesIntoMap(n) ==
    [k \in {KeyString(n.Values[i]) : i \in 1..Len(n.Values)} |->
        LET last == CHOOSE i \in 1..Len(n.Values) :
                        /\ KeyString(n.Values[i]) = k
                        /\ \A j \in (i + 1)..Len(n.Values) : KeyString(n.Values[j]) # k
        IN n.Values[last]]

RECURSIVE compareNodes(_, _, _, _)
RECURSIVE compareMappingNodes(_, _, _, _)
RECURSIVE compareSequenceNodes(_, _, _, _)
RECURSIVE ignoreIndexes(_, _, _)
RECURSIVE cancelLoop(_, _, _, _, _)

\* a sequence that is reported as a whole is reported entry by entry as well
compareNodes_descend(ln, rn, ignoreSeqOrder, order) ==
    IF ln = Nil /\ rn = Nil THEN <<>>
    ELSE IF ln = Nil \/ rn = Nil \/ ~comparableNodes(ln, rn) THEN
        <<newDiff(ln, rn)>> \o
            (IF ln # Nil /\ ln.Type = "Sequence"
             THEN [k \in 1..Len(ln.Values) |-> newDiff(ln.Values[k], Nil)] ELSE <<>>)
    ELSE IF ln.Type = "Mapping" THEN compareMappingNodes(ln, rn, ignoreSeqOrder, order)
    ELSE IF ln.Type = "Sequence" THEN compareSequenceNodes(ln, rn, ignoreSeqOrder, order)
    ELSE IF ln.Type \in {"String", "Literal"} THEN
        IF stringNodeValue(ln) # stringNodeValue(rn) THEN <<newDiff(ln, rn)>> ELSE <<>>
    ELSE IF ln.Type \in {"Integer", "Float", "Bool", "Infinity"} THEN
        IF ln.Value # rn.Value THEN <<newDiff(ln, rn)>> ELSE <<>>
    ELSE <<>>

\* without the check for two nil nodes
compareNodes_noNilCheck(ln, rn, ignoreSeqOrder, order) ==
    IF ln = Nil \/ rn = Nil \/ ~comparableNodes(ln, rn) THEN <<newDiff(ln, rn)>>
    ELSE IF ln.Type = "Mapping" THEN compareMappingNodes(ln, rn, ignoreSeqOrder, order)
    ELSE IF ln.Type = "Sequence" THEN compareSequenceNodes(ln, rn, ignoreSeqOrder, order)
    ELSE IF ln.Type \in {"String", "Literal"} THEN
        IF stringNodeValue(ln) # stringNodeValue(rn) THEN <<newDiff(ln, rn)>> ELSE <<>>
    ELSE IF ln.Type \in {"Integer", "Float", "Bool", "Infinity"} THEN
        IF ln.Value # rn.Value THEN <<newDiff(ln, rn)>> ELSE <<>>
    ELSE <<>>

\* Null and NaN nodes compared by their spelling
compareNodes_spelling(ln, rn, ignoreSeqOrder, order) ==
    IF ln = Nil /\ rn = Nil THEN <<>>
    ELSE IF ln = Nil \/ rn = Nil \/ ~comparableNodes(ln, rn) THEN <<newDiff(ln, rn)>>
    ELSE IF ln.Type = "Mapping" THEN compareMappingNodes(ln, rn, ignoreSeqOrder, order)
    ELSE IF ln.Type = "Sequence" THEN compareSequenceNodes(ln, rn, ignoreSeqOrder, order)
    ELSE IF ln.Type \in {"String", "Literal"} THEN
        IF stringNodeValue(ln) # stringNodeValue(rn) THEN <<newDiff(ln, rn)>> ELSE <<>>
    ELSE IF ln.Value # rn.Value THEN <<newDiff(ln, rn)>> ELSE <<>>

compareNodes(ln, rn, ignoreSeqOrder, order) ==
    IF ln = Nil /\ rn = Nil THEN <<>>
    ELSE IF ln = Nil \/ rn = Nil \/ ~comparableNodes(ln, rn) THEN <<newDiff(ln, rn)>>
    ELSE IF ln.Type = "Mapping" THEN compareMappingNodes(ln, rn, ignoreSeqOrder, order)
    ELSE IF ln.Type = "Sequence" THEN compareSequenceNodes(ln, rn, ignoreSeqOrder, order)
    ELSE IF ln.Type \in {"String", "Literal"} THEN
        IF stringNodeValue(ln) # stringNodeValue(rn) THEN <<newDiff(ln, rn)>> ELSE <<>>
    ELSE IF ln.Type \in {"Integer", "Float", "Bool", "Infinity"} THEN
        IF ln.Value # rn.Value THEN <<newDiff(ln, rn)>> ELSE <<>>
    ELSE <<>>    \* NullType, NanType and every type without a case

\* the entries of the two mappings paired by their position
compareMappingNodes_positional(leftNode, rightNode, ignoreSeqOrder, order) ==
    LET ll == Len(leftNode.Values)
        lr == Len(rightNode.Values)
    IN Concat([i \in 1..(IF ll > lr THEN ll ELSE lr) |->
            IF i > lr THEN <<newDiff(MVValue(leftNode.Values[i]), Nil)>>
            ELSE IF i > ll THEN <<newDiff(Nil, MVValue(rightNode.Values[i]))>>
            ELSE IF KeyString(leftNode.Values[i]) = KeyString(rightNode.Values[i])
            THEN compareNodes(MVValue(leftNode.Values[i]), MVValue(rightNode.Values[i]),
                              ignoreSeqOrder, order)
            ELSE <<newDiff(MVValue(leftNode.Values[i]), Nil),
                   newDiff(Nil, MVValue(rightNode.Values[i]))>>])

\* two mappings compared as wholes
compareMappingNodes_whole(leftNode, rightNode, ignoreSeqOrder, order) ==
    IF leftNode.Values = rightNode.Values THEN <<>> ELSE <<newDiff(leftNode, rightNode)>>

\* without the loop over the keys of the right map
compareMappingNodes_leftKeysOnly(leftNode, rightNode, ignoreSeqOrder, order) ==
    LET leftKeyValueMap == mappingValueNodesIntoMap(leftNode)
        rightKeyValueMap == mappingValueNodesIntoMap(rightNode)
        keyDiffsMap == [k \in DOMAIN leftKeyValueMap |->
                        IF k \notin DOMAIN rightKeyValueMap
                        THEN <<newDiff(wrapMappingValueNode(MVValue(leftKeyValueMap[k])), Nil)>>
                        ELSE compareNodes(MVValue(leftKeyValueMap[k]),
                                          MVValue(rightKeyValueMap[k]), ignoreSeqOrder, order)]
        visit == SelectKeys(order, DOMAIN keyDiffsMap)
    IN Concat([i \in 1..Len(visit) |-> keyDiffsMap[visit[i]]])

compareMappingNodes(leftNode, rightNode, ignoreSeqOrder, order) ==
    LET leftKeyValueMap == mappingValueNodesIntoMap(leftNode)
        rightKeyValueMap == mappingValueNodesIntoMap(rightNode)
        \* first loop: the keys of the left map
        fromLeft == [k \in DOMAIN leftKeyValueMap |->
                        IF k \notin DOMAIN rightKeyValueMap
                        THEN <<newDiff(wrapMappingValueNode(MVValue(leftKeyValueMap[k])), Nil)>>
                        ELSE compareNodes(MVValue(leftKeyValueMap[k]),
                                          MVValue(rightKeyValueMap[k]), ignoreSeqOrder, order)]
        \* second loop: the keys of the right map that the first loop did not set
        keyDiffsMap == [k \in DOMAIN leftKeyValueMap \cup DOMAIN rightKeyValueMap |->
                        IF k \in DOMAIN fromLeft THEN fromLeft[k]
                        ELSE <<newDiff(Nil, wrapMappingValueNode(MVValue(rightKeyValueMap[k])))>>]
        \* third loop: range over keyDiffsMap
        visit == SelectKeys(order, DOMAIN keyDiffsMap)
    IN Concat([i \in 1..Len(visit) |-> keyDiffsMap[visit[i]]])

\* an entry pushed to the front is recognised and reported as one addition
compareSequenceNodes_insertion(leftNode, rightNode, ignoreSeqOrder, order) ==
    LET ll == Len(leftNode.Values)
        lr == Len(rightNode.Values)
        l == IF ll > lr THEN ll ELSE lr
        diffs == Concat([i \in 1..l |->
                    compareNodes(IF ll >= i THEN leftNode.Values[i] ELSE Nil,
                                 IF lr >= i THEN rightNode.Values[i] ELSE Nil,
                                 ignoreSeqOrder, order)])
    IN IF lr = ll + 1 /\ \A i \in 1..ll : leftNode.Values[i].Value = rightNode.Values[i + 1].Value
       THEN <<newDiff(Nil, rightNode.Values[1])>>
       ELSE IF ignoreSeqOrder THEN ignoreIndexes(diffs, ignoreSeqOrder, order) ELSE diffs

\* the loop bound is the shorter length
compareSequenceNodes_min(leftNode, rightNode, ignoreSeqOrder, order) ==
    LET ll == Len(leftNode.Values)
        lr == Len(rightNode.Values)
        l == IF ll < lr THEN ll ELSE lr
        diffs == Concat([i \in 1..l |->
                    compareNodes(leftNode.Values[i], rightNode.Values[i], ignoreSeqOrder, order)])
    IN IF ignoreSeqOrder THEN ignoreIndexes(diffs, ignoreSeqOrder, order) ELSE diffs

compareSequenceNodes(leftNode, rightNode, ignoreSeqOrder, order) ==
    LET ll == Len(leftNode.Values)
        lr == Len(rightNode.Values)
        l == IF ll > lr THEN ll ELSE lr
        diffs == Concat([i \in 1..l |->
                    compareNodes(IF ll >= i THEN leftNode.Values[i] ELSE Nil,
                                 IF lr >= i THEN rightNode.Values[i] ELSE Nil,
                                 ignoreSeqOrder, order)])
    IN IF ignoreSeqOrder THEN ignoreIndexes(diffs, ignoreSeqOrder, order) ELSE diffs

\* The first index ir >= from with rightNodes[ir] non-nil and equal to leftNode
\* under compareNodes, or 0: the inner loop of ignoreIndexes.
RECURSIVE firstMatch(_, _, _, _, _)
\* a right node of the same kind is a match, whatever its value
firstMatch_sameKind(leftNode, rightNodes, from, ignoreSeqOrder, order) ==
    IF from > Len(rightNodes) THEN 0
    ELSE IF rightNodes[from] # Nil /\ rightNodes[from].Type = leftNode.Type THEN from
    ELSE firstMatch(leftNode, rightNodes, from + 1, ignoreSeqOrder, order)

firstMatch(leftNode, rightNodes, from, ignoreSeqOrder, order) ==
    IF from > Len(rightNodes) THEN 0
    ELSE IF rightNodes[from] # Nil
            /\ Len(compareNodes(leftNode, rightNodes[from], ignoreSeqOrder, order)) = 0
         THEN from
    ELSE firstMatch(leftNode, rightNodes, from + 1, ignoreSeqOrder, order)

\* The outer loop of ignoreIndexes from index il on: the leftNodes and
\* rightNodes slices after the cancellation.  `range leftNodes` reads the
\* elements of the slice as they were before the loop, which for index il is
\* what leftNodes[il] still holds (only leftNodes[il] itself is ever cleared).
\* a match clears the left node and leaves the right node
cancelLoop_keepRight(leftNodes, rightNodes, il, ignoreSeqOrder, order) ==
    IF il > Len(leftNodes) THEN <<leftNodes, rightNodes>>
    ELSE IF leftNodes[il] = Nil
         THEN cancelLoop(leftNodes, rightNodes, il + 1, ignoreSeqOrder, order)
    ELSE LET ir == firstMatch(leftNodes[il], rightNodes, 1, ignoreSeqOrder, order)
         IN IF ir = 0
            THEN cancelLoop(leftNodes, rightNodes, il + 1, ignoreSeqOrder, order)
            ELSE cancelLoop([leftNodes EXCEPT ![il] = Nil], rightNodes,
                            il + 1, ignoreSeqOrder, order)

cancelLoop(leftNodes, rightNodes, il, ignoreSeqOrder, order) ==
    IF il > Len(leftNodes) THEN <<leftNodes, rightNodes>>
    ELSE IF leftNodes[il] = Nil
         THEN cancelLoop(leftNodes, rightNodes, il + 1, ignoreSeqOrder, order)
    ELSE LET ir == firstMatch(leftNodes[il], rightNodes, 1, ignoreSeqOrder, order)
         IN IF ir = 0
            THEN cancelLoop(leftNodes, rightNodes, il + 1, ignoreSeqOrder, order)
            ELSE cancelLoop([leftNodes EXCEPT ![il] = Nil], [rightNodes EXCEPT ![ir] = Nil],
                            il + 1, ignoreSeqOrder, order)

\* the nodes left over moved to the front of their slices before they are paired
ignoreIndexes_compact(diffs, ignoreSeqOrder, order) ==
    LET leftNodes == [i \in 1..Len(diffs) |-> diffs[i].leftNode]
        rightNodes == [i \in 1..Len(diffs) |-> diffs[i].rightNode]
        after == cancelLoop(leftNodes, rightNodes, 1, ignoreSeqOrder, order)
        ls == SelectSeq(after[1], LAMBDA n : n # Nil)
        rs == SelectSeq(after[2], LAMBDA n : n # Nil)
    IN [j \in 1..(IF Len(ls) > Len(rs) THEN Len(ls) ELSE Len(rs)) |->
            newDiff(IF j <= Len(ls) THEN ls[j] ELSE Nil, IF j <= Len(rs) THEN rs[j] ELSE Nil)]

ignoreIndexes(diffs, ignoreSeqOrder, order) ==
    LET leftNodes == [i \in 1..Len(diffs) |-> diffs[i].leftNode]
        rightNodes == [i \in 1..Len(diffs) |-> diffs[i].rightNode]
        after == cancelLoop(leftNodes, rightNodes, 1, ignoreSeqOrder, order)
        keep == SelectSeq([i \in 1..Len(diffs) |-> i],
                          LAMBDA i : ~(after[1][i] = Nil /\ after[2][i] = Nil))
    IN [j \in 1..Len(keep) |-> newDiff(after[1][keep[j]], after[2][keep[j]])]

(***************************************************************************)
(* types.go: DocDiffs.Less, and sort.Sort as the standard library runs it  *)
(* on a slice of at most 12 elements: insertion sort, each element moved   *)
(* down while Less(j, j-1).                                                *)
(***************************************************************************)
\* on one line, the smaller DiffType first
Less_typeAscending(d, i, j) ==
    LET diffA == d[i]
        diffB == d[j]
        nodeA == IF diffA.leftNode = Nil THEN diffA.rightNode ELSE diffA.leftNode
        nodeB == IF diffB.leftNode = Nil THEN diffB.rightNode ELSE diffB.leftNode
        lineDelta == nodeA.Line - nodeB.Line
    IN IF lineDelta # 0 THEN lineDelta < 0
       ELSE Type(diffA) < Type(diffB)

\* the later line first
Less_lineDescending(d, i, j) ==
    LET diffA == d[i]
        diffB == d[j]
        nodeA == IF diffA.leftNode = Nil THEN diffA.rightNode ELSE diffA.leftNode
        nodeB == IF diffB.leftNode = Nil THEN diffB.rightNode ELSE diffB.leftNode
        lineDelta == nodeA.Line - nodeB.Line
    IN IF lineDelta # 0 THEN lineDelta > 0
       ELSE Type(diffA) > Type(diffB)

\* on one line, a difference with a left node first
Less_leftPresent(d, i, j) ==
    LET diffA == d[i]
        diffB == d[j]
        nodeA == IF diffA.leftNode = Nil THEN diffA.rightNode ELSE diffA.leftNode
        nodeB == IF diffB.leftNode = Nil THEN diffB.rightNode ELSE diffB.leftNode
    IN IF nodeA.Line = nodeB.Line THEN diffA.leftNode # Nil
       ELSE nodeA.Line < nodeB.Line

Less(d, i, j) ==
    LET diffA == d[i]
        diffB == d[j]
        nodeA == IF diffA.leftNode = Nil THEN diffA.rightNode ELSE diffA.leftNode
        nodeB == IF diffB.leftNode = Nil THEN diffB.rightNode ELSE diffB.leftNode
        lineDelta == nodeA.Line - nodeB.Line
    IN IF lineDelta # 0 THEN lineDelta < 0
       ELSE Type(diffA) > Type(diffB)

Swap(d, i, j) == [d EXCEPT ![i] = d[j], ![j] = d[i]]

RECURSIVE sinkDown(_, _)
sinkDown(d, j) ==
    IF j > 1 /\ Less(d, j, j - 1) THEN sinkDown(Swap(d, j, j - 1), j - 1) ELSE d

RECURSIVE insertionSort(_, _)
insertionSort(d, i) ==
    IF i > Len(d) THEN d ELSE insertionSort(sinkDown(d, i), i + 1)

Sort(d) == IF Len(d) <= 1 THEN d ELSE insertionSort(d, 2)

\* FileDiffs.HasDiff: the loop over the documents from index k on
RECURSIVE hasDiffFrom(_, _)
hasDiffFrom(f, k) ==
    IF k > Len(f) THEN FALSE
    ELSE IF Len(f[k]) > 0 THEN TRUE
    ELSE hasDiffFrom(f, k + 1)

\* a loop that answers after its first document
HasDiff_firstDocOnly(f) == Len(f) > 0 /\ Len(f[1]) > 0

HasDiff(f) == hasDiffFrom(f, 1)

(***************************************************************************)
(* The formatter (formatter.formatFileDiffs and below) for plain output    *)
(* without metadata.  A Go string is the sequence of its pieces, each a    *)
(* non-empty string: "" is <<>>, + is \o, and "\n" is always a piece of    *)
(* its own.                                                                *)
(***************************************************************************)
\* strings.Join(strs, sep)
RECURSIVE Join(_, _)
Join(strs, sep) ==
    IF Len(strs) = 0 THEN <<>>
    ELSE IF Len(strs) = 1 THEN strs[1]
    ELSE strs[1] \o sep \o Join(Tail(strs), sep)

\* strings.Repeat(" ", n)
Repeat(n) == [k \in 1..n |-> " "]

\* the lines of node.String(): block style, nested collections indented by two
RECURSIVE StringLines(_)
StringLines(n) ==
    IF n.Type = "Sequence" THEN
        IF Len(n.Values) = 0 THEN << <<"[]">> >>
        ELSE Concat([k \in 1..Len(n.Values) |->
                LET ls == StringLines(n.Values[k])
                IN [j \in 1..Len(ls) |-> (IF j = 1 THEN <<"- ">> ELSE <<"  ">>) \o ls[j]]])
    ELSE IF n.Type = "Mapping" THEN
        IF Len(n.Values) = 0 THEN << <<"{}">> >>
        ELSE Concat([k \in 1..Len(n.Values) |->
                LET mv == n.Values[k]
                    ls == StringLines(MVValue(mv))
                IN IF IsCollection(MVValue(mv)) /\ Len(MVValue(mv).Values) > 0
                   THEN << <<KeyString(mv), ":">> >> \o [j \in 1..Len(ls) |-> <<"  ">> \o ls[j]]
                   ELSE << <<KeyString(mv), ": ">> \o ls[1] >>])
    ELSE << <<n.Value>> >>

\* formatNodeValue: the value and whether it is a multi-line value; the first line of
\* node.String() has no indentation of its own (baseIndent = 0)
formatNodeValue(node, indent, startNewLine) ==
    IF node = Nil THEN [value |-> <<>>, multiLine |-> FALSE]
    ELSE LET lines == StringLines(node)
         IN IF Len(lines) = 1 /\ ~IsCollection(node)
            THEN [value |-> lines[1], multiLine |-> FALSE]
            ELSE LET out == [j \in 1..Len(lines) |->
                                (IF j = 1 \/ startNewLine THEN <<>> ELSE <<"  ">>)
                                    \o Repeat(indent) \o lines[j]]
                 IN [value |-> (IF startNewLine THEN <<"\n">> ELSE <<>>) \o Join(out, <<"\n">>),
                     multiLine |-> TRUE]

getNodeValue(node, path) ==
    IF path = <<>> THEN formatNodeValue(node, 0, FALSE) ELSE formatNodeValue(node, 4, TRUE)

\* getModifiedSymbol: the symbol and the two values as it leaves them (the arrows are
\* U+2192 and U+2193 in the code)
getModifiedSymbol(leftMultiLine, rightMultiLine, path, leftValue, rightValue) ==
    IF ~(leftMultiLine \/ rightMultiLine)
    THEN [symbol |-> <<"->">>, leftValue |-> leftValue, rightValue |-> rightValue]
    ELSE LET symbol == <<"\n", "    ", "v">>
         IN IF ~leftMultiLine /\ path # <<>>
            THEN [symbol |-> symbol, leftValue |-> <<"\n", "    ">> \o leftValue, rightValue |-> rightValue]
            ELSE IF ~leftMultiLine /\ path = <<>>
            THEN [symbol |-> symbol, leftValue |-> leftValue, rightValue |-> <<"\n", "  ">> \o rightValue]
            ELSE IF ~rightMultiLine /\ path # <<>>
            THEN [symbol |-> symbol, leftValue |-> leftValue, rightValue |-> <<"\n", "    ">> \o rightValue]
            ELSE IF ~rightMultiLine /\ path = <<>>
            THEN [symbol |-> symbol, leftValue |-> leftValue, rightValue |-> <<"\n", "  ">> \o rightValue]
            ELSE IF path = <<>>
            THEN [symbol |-> symbol, leftValue |-> leftValue, rightValue |-> <<"\n", "  ">> \o rightValue]
            ELSE [symbol |-> symbol, leftValue |-> leftValue, rightValue |-> rightValue]

\* buildOutput: "%s %s", "%s %s" and "%s %s: %s"
buildOutput(sign, path, value, options) ==
    IF options.pathsOnly THEN <<sign, " ">> \o path
    ELSE IF path = <<>> THEN <<sign, " ">> \o value
    ELSE <<sign, " ">> \o path \o <<": ">> \o value

\* buildModifiedOutput: "%s %s", "%s %s %s %s" and "%s %s: %s %s %s"
buildModifiedOutput(sign, path, leftValue, rightValue, symbol, options) ==
    IF options.pathsOnly THEN <<sign, " ">> \o path
    ELSE IF path = <<>> THEN <<sign, " ">> \o leftValue \o <<" ">> \o symbol \o <<" ">> \o rightValue
    ELSE <<sign, " ">> \o path \o <<": ">> \o leftValue \o <<" ">> \o symbol \o <<" ">> \o rightValue

formatAdded(diff, options) ==
    LET path == getNodePath(diff.rightNode)
    IN buildOutput("+", path, getNodeValue(diff.rightNode, path).value, options)

formatDeleted(diff, options) ==
    LET path == getNodePath(diff.leftNode)
    IN buildOutput("-", path, getNodeValue(diff.leftNode, path).value, options)

formatModified(diff, options) ==
    LET path == getNodePath(diff.leftNode)
        l == getNodeValue(diff.leftNode, path)
        r == getNodeValue(diff.rightNode, path)
        m == getModifiedSymbol(l.multiLine, r.multiLine, path, l.value, r.value)
    IN buildModifiedOutput("~", path, m.leftValue, m.rightValue, m.symbol, options)

formatDiff(diff, options) ==
    IF Type(diff) = Added THEN formatAdded(diff, options)
    ELSE IF Type(diff) = Deleted THEN formatDeleted(diff, options)
    ELSE formatModified(diff, options)

\* countDiffs and diffCount.String(): "%d added, %d deleted, %d modified\n"
countDiffs(diffs) ==
    [t \in {Added, Deleted, Modified} |-> Cardinality({k \in 1..Len(diffs) : Type(diffs[k]) = t})]

countString(count) ==
    <<ToString(count[Added]), " added, ", ToString(count[Deleted]), " deleted, ",
      ToString(count[Modified]), " modified", "\n">>

\* a document without differences formats to the empty string and to nothing else
formatDocDiffs(diffs, options) ==
    LET result == Join([k \in 1..Len(diffs) |-> formatDiff(diffs[k], options)], <<"\n">>)
    IN IF options.counts THEN countString(countDiffs(diffs)) \o result ELSE result

formatFileDiffs(fileDiffs, options) ==
    Join([k \in 1..Len(fileDiffs) |-> formatDocDiffs(fileDiffs[k], options)], <<"\n", "---", "\n">>)

\* FileDiffs.Format
Format(f, options) == formatFileDiffs(f, options)

(***************************************************************************)
(* cmd/root.go: the flags of the command.  Colour is not modelled: "auto"  *)
(* is taken with a standard output that is no terminal, so the output is   *)
(* plain.                                                                  *)
(***************************************************************************)
NoError == ""

newConfig == [exitOnDifference |-> FALSE, color |-> "auto", pathsOnly |-> FALSE, counts |-> FALSE]

formatOptions(c) == [pathsOnly |-> c.pathsOnly, counts |-> c.counts]

validateColorFlag(c) ==
    IF c.color \in {"always", "never", "auto"} THEN NoError
    ELSE "invalid color value: must be one of 'always', 'never', or 'auto'"

DifferencesFound == "differences found between yaml files"

\* the error whenever the flag is set
exitError_always(exitOnDifference, hasDiffs) ==
    IF exitOnDifference THEN DifferencesFound ELSE NoError

\* if cfg.exitOnDifference && diffs.HasDiff() { return errors.New(...) }; return nil
exitError(exitOnDifference, hasDiffs) ==
    IF exitOnDifference /\ hasDiffs THEN DifferencesFound ELSE NoError

\* strings.TrimSpace(s) == ""
IsBlank(s) == \A k \in 1..Len(s) : s[k] \in {" ", "  ", "    ", "\n", "\t"}

(***************************************************************************)
(* Compare / CompareFile: the parser's answers.                            *)
(***************************************************************************)
ParseErrors == {"yaml: syntax error", "open: no such file or directory"}

\* the error of the left input alone
firstError_leftOnly(leftErr, rightErr) == leftErr

\* the error Compare returns: the left parser's, else the right parser's, else nil
firstError(leftErr, rightErr) == IF leftErr # NoError THEN leftErr ELSE rightErr

(***************************************************************************)
(* The inputs of the model: pairs of document streams.                     *)
(***************************************************************************)
KeyOrder == <<"a", "b", "c">>

\* the mapping whose entries are the keys k of keys with vals[k] # Nil, in the order of keys
MappingOf(keys, vals) ==
    LET present == SelectSeq(keys, LAMBDA k : vals[k] # Nil)
    IN MappingNode([i \in 1..Len(present) |-> MappingValueNode(present[i], vals[present[i]])])

SeqsOver(S, lo, hi) == UNION {[1..n -> S] : n \in lo..hi}

IntScalars == {IntegerNode(1), IntegerNode(2)}

OtherScalars ==
    { StringNode("x"), StringNode("y"), Scalar("Literal", "x"), Scalar("Literal", "z"),
      Scalar("Null", "null"), Scalar("Null", "~"), Scalar("Bool", "true"),
      Scalar("Bool", "false"), Scalar("Float", "1.5"), Scalar("Float", "1"),
      Scalar("Nan", ".nan"), Scalar("Nan", ".NaN"), Scalar("Infinity", ".inf"),
      Scalar("Infinity", "-.inf") }

IntSeqs == {SequenceNode(s) : s \in SeqsOver(IntScalars, 0, MaxSeqLen)}

FlatVals == {IntegerNode(1), IntegerNode(2)}

FlatMaps == {MappingOf(KeyOrder, vals) : vals \in [{"a", "b", "c"} -> FlatVals \cup {Nil}]}

Seq12 == SequenceNode(<<IntegerNode(1), IntegerNode(2)>>)
Seq21 == SequenceNode(<<IntegerNode(2), IntegerNode(1)>>)
MapA1B2 == MappingNode(<<MappingValueNode("a", IntegerNode(1)), MappingValueNode("b", IntegerNode(2))>>)
MapA2B1 == MappingNode(<<MappingValueNode("a", IntegerNode(2)), MappingValueNode("b", IntegerNode(1))>>)
MapA1 == MappingNode(<<MappingValueNode("a", IntegerNode(1))>>)
MapB1 == MappingNode(<<MappingValueNode("b", IntegerNode(1))>>)

NestedSeqs ==
    {SequenceNode(s) : s \in SeqsOver({Seq12, MapA1B2, MapA2B1, MapA1, MapB1}, 1, 2)}

NestedMaps ==
    {MappingOf(<<"a", "b">>, vals) :
        vals \in [{"a", "b"} -> {Nil, IntegerNode(1), Seq12, Seq21, MapA1B2}]}

\* roots of every kind and the empty document, for the pairs of unlike kinds
Roots == OtherScalars \cup {Nil, IntegerNode(1), IntegerNode(2), Seq12, MapA1B2, SequenceNode(<<>>), MappingNode(<<>>)}

\* the documents of the enumerated multi-document streams
StreamDocs == {Nil, Scalar("Null", "null"), MapA1}

IntList(s) == SequenceNode([i \in 1..Len(s) |-> IntegerNode(s[i])])

\* the example of the README (Library Usage)
ReadmeLeft ==
    MappingNode(<< MappingValueNode("name", StringNode("Alice")),
                   MappingValueNode("city", StringNode("New York")),
                   MappingValueNode("items", SequenceNode(<<StringNode("foo"), StringNode("bar")>>)) >>)
ReadmeRight ==
    MappingNode(<< MappingValueNode("name", StringNode("Bob")),
                   MappingValueNode("age", IntegerNode(30)),
                   MappingValueNode("items", SequenceNode(<<StringNode("foo"), StringNode("baz")>>)) >>)

\* [~, 1] and [1, null], [.nan, 1] and [1, .NaN]: the same scalars at different places
NullFirst == SequenceNode(<<Scalar("Null", "~"), IntegerNode(1)>>)
NullLast == SequenceNode(<<IntegerNode(1), Scalar("Null", "null")>>)
NanFirst == SequenceNode(<<Scalar("Nan", ".nan"), IntegerNode(1)>>)
NanLast == SequenceNode(<<IntegerNode(1), Scalar("Nan", ".NaN")>>)

\* the example of the README, the lists of TestDiffsArray, a rotated list, and the above
Examples ==
    { <<ReadmeLeft, ReadmeRight>>,
      <<IntList(<<1, 2, 3, 4, 5>>), IntList(<<1, 2, 3, 4, 5>>)>>,
      <<IntList(<<1, 2, 3, 4, 5>>), IntList(<<4, 5>>)>>,
      <<IntList(<<4, 5>>), IntList(<<1, 2, 3, 4, 5>>)>>,
      <<IntList(<<1, 2, 3, 4, 5>>), IntList(<<5, 4, 3, 2, 1>>)>>,
      <<IntList(<<1, 2, 3>>), IntList(<<3, 1, 2>>)>>,
      <<IntList(<<1, 2, 3, 4, 5, 8>>), IntList(<<9, 3, 2, 5, 4, 6, 7>>)>>,
      <<NullFirst, NullLast>>, <<NanFirst, NanLast>> }

SingleDocPairs ==
    (IntSeqs \X IntSeqs) \cup (FlatMaps \X FlatMaps) \cup (NestedSeqs \X NestedSeqs)
        \cup (NestedMaps \X NestedMaps) \cup (Roots \X Roots) \cup Examples

Inputs ==
    {<< <<p[1]>>, <<p[2]>> >> : p \in SingleDocPairs}
        \cup (SeqsOver(StreamDocs, 0, MaxDocs) \X SeqsOver(StreamDocs, 0, MaxDocs))

\* the streams the command is run on, and those next to an input that fails to parse
CmdDocs == {Nil, MapA1}
CmdRoots == {Nil, Scalar("Null", "null"), IntegerNode(1), StringNode("x"), Seq12, Seq21, MapA1B2, MapA2B1}
CmdInputs ==
    (SeqsOver(CmdDocs, 0, MaxDocs) \X SeqsOver(CmdDocs, 0, MaxDocs))
        \cup {<< <<p[1]>>, <<p[2]>> >> : p \in CmdRoots \X CmdRoots}
        \cup {<< <<ReadmeLeft>>, <<ReadmeRight>> >>}

\* the flags of the command: every combination, and one with a colour that is not valid
Configs ==
    {[exitOnDifference |-> e, color |-> "auto", pathsOnly |-> p, counts |-> c] :
        e \in BOOLEAN, p \in BOOLEAN, c \in BOOLEAN}
        \cup {[newConfig EXCEPT !.color = "rainbow"]}

\* the keys of all mappings below n
RECURSIVE KeysOf(_)
KeysOf(n) ==
    IF n.Type = "Mapping"
    THEN UNION {{KeyString(n.Values[i])} \cup KeysOf(MVValue(n.Values[i])) : i \in 1..Len(n.Values)}
    ELSE IF n.Type = "Sequence" THEN UNION {KeysOf(n.Values[i]) : i \in 1..Len(n.Values)}
    ELSE {}

\* the orders in which a run may visit the keys of S
KeyOrders(S) == {s \in [1..Cardinality(S) -> S] : \A k \in S : \E i \in DOMAIN s : s[i] = k}

(***************************************************************************)
(* The state.                                                              *)
(***************************************************************************)
VARIABLES
    left,            \* left.Docs[i].Body of the left *ast.File
    right,           \* right.Docs[i].Body of the right *ast.File
    ignoreSeqOrder,  \* compareOptions.ignoreSeqOrder
    pc,              \* "idle", "loop" (inside CompareAst), "done" (CompareAst has returned)
    i,               \* the loop variable of CompareAst
    docDiffs,        \* the FileDiffs that CompareAst builds and returns
    unsorted,        \* per document, the value of compareNodes(l, r) before sort.Sort
    hasDiff,         \* <<b>> once FileDiffs.HasDiff() has returned b, else <<>>
    earlier,         \* <<f>> when the invocation before this one returned the FileDiffs f, else <<>>
    entry,           \* "Compare" for a caller of the library, "runCommand" for the command
    cfg,             \* the config of runCommand (newConfig for a caller of the library)
    parseErr,        \* <<l, r>>: the errors the parser returns for the two inputs, NoError for none
    err,             \* the error Compare / CompareFile has returned, NoError for nil
    stdout,          \* what runCommand has written to cmd.OutOrStdout()
    cmdErr           \* the error runCommand has returned, NoError for nil

vars == <<left, right, ignoreSeqOrder, pc, i, docDiffs, unsorted, hasDiff, earlier,
          entry, cfg, parseErr, err, stdout, cmdErr>>

\* pc: "idle", "loop" (inside CompareAst), "done" (Compare has returned its FileDiffs),
\* "failed" (Compare has returned an error), "exited" (runCommand has returned)

\* the length of the left stream alone
Max_first(a, b) == a

Max(a, b) == IF a > b THEN a ELSE b

\* the last document of the stream where the stream has no document k
docBody_last(docs, k) ==
    IF Len(docs) > k THEN docs[k + 1]
    ELSE IF Len(docs) > 0 THEN docs[Len(docs)] ELSE Nil

\* var l, r ast.Node; if len(docs) > i { l = docs[i].Body }
docBody(docs, k) == IF Len(docs) > k THEN docs[k + 1] ELSE Nil

Init ==
    /\ entry \in {"Compare", "runCommand"}
    /\ cfg \in (IF entry = "runCommand" THEN Configs ELSE {newConfig})
    /\ parseErr \in (ParseErrors \cup {NoError}) \X (ParseErrors \cup {NoError})
    /\ \E in \in (IF entry = "Compare" /\ parseErr = <<NoError, NoError>>
                   THEN Inputs ELSE CmdInputs),
          flow \in BOOLEAN :
        \* the *ast.File of an input that fails to parse is nil
        /\ left = IF parseErr[1] = NoError THEN ParseFile(in[1], flow) ELSE <<>>
        /\ right = IF parseErr[2] = NoError THEN ParseFile(in[2], flow) ELSE <<>>
    /\ ignoreSeqOrder \in BOOLEAN
    /\ err = NoError
    /\ stdout = <<>>
    /\ cmdErr = NoError
    /\ pc = "idle"
    /\ i = 0
    /\ docDiffs = <<>>
    /\ unsorted = <<>>
    /\ hasDiff = <<>>
    /\ earlier = <<>>

\* runCommand returns the error of validateColorFlag
RunCommandInvalidColor ==
    /\ pc = "idle" /\ entry = "runCommand"
    /\ validateColorFlag(cfg) # NoError
    /\ cmdErr' = validateColorFlag(cfg)
    /\ pc' = "exited"
    /\ UNCHANGED <<left, right, ignoreSeqOrder, i, docDiffs, unsorted, hasDiff, earlier,
                   entry, cfg, parseErr, err, stdout>>

\* Compare / CompareFile: a parser returns an error: return nil, err
CompareParseError ==
    /\ pc = "idle"
    /\ entry = "runCommand" => validateColorFlag(cfg) = NoError
    /\ firstError(parseErr[1], parseErr[2]) # NoError
    /\ err' = firstError(parseErr[1], parseErr[2])
    /\ docDiffs' = <<>>
    /\ pc' = "failed"
    /\ UNCHANGED <<left, right, ignoreSeqOrder, i, unsorted, hasDiff, earlier,
                   entry, cfg, parseErr, stdout, cmdErr>>

\* Compare / CompareFile: both inputs parse; then CompareAst up to its loop:
\* make(FileDiffs, max(len(left.Docs), len(right.Docs)))
CompareAstBegin ==
    /\ pc = "idle"
    /\ entry = "runCommand" => validateColorFlag(cfg) = NoError
    /\ firstError(parseErr[1], parseErr[2]) = NoError
    /\ docDiffs' = [k \in 1..Max(Len(left), Len(right)) |-> <<>>]
    /\ unsorted' = <<>>
    /\ i' = 0
    /\ pc' = "loop"
    /\ UNCHANGED <<left, right, ignoreSeqOrder, hasDiff, earlier,
                   entry, cfg, parseErr, err, stdout, cmdErr>>

\* the body of the left document cleared once it has been compared
CompareAstDoc_clearsInput ==
    /\ pc = "loop"
    /\ i < Len(docDiffs)
    /\ LET l == docBody(left, i)
           r == docBody(right, i)
       IN \E order \in KeyOrders(KeysOf(l) \cup KeysOf(r)) :
            LET docDiff == compareNodes(l, r, ignoreSeqOrder, order)
            IN /\ unsorted' = Append(unsorted, docDiff)
               /\ docDiffs' = [docDiffs EXCEPT ![i + 1] = Sort(docDiff)]
    /\ i' = i + 1
    /\ left' = [k \in 1..Len(left) |-> IF k = i + 1 THEN Nil ELSE left[k]]
    /\ UNCHANGED <<right, ignoreSeqOrder, pc, hasDiff, earlier,
                   entry, cfg, parseErr, err, stdout, cmdErr>>

\* One iteration of the loop of CompareAst: compareNodes, sort.Sort, docDiffs[i] = docDiff
CompareAstDoc ==
    /\ pc = "loop"
    /\ i < Len(docDiffs)
    /\ LET l == docBody(left, i)
           r == docBody(right, i)
       IN \E order \in KeyOrders(KeysOf(l) \cup KeysOf(r)) :
            LET docDiff == compareNodes(l, r, ignoreSeqOrder, order)
            IN /\ unsorted' = Append(unsorted, docDiff)
               /\ docDiffs' = [docDiffs EXCEPT ![i + 1] = Sort(docDiff)]
    /\ i' = i + 1
    /\ UNCHANGED <<left, right, ignoreSeqOrder, pc, hasDiff, earlier,
                   entry, cfg, parseErr, err, stdout, cmdErr>>

\* The loop of CompareAst ends: return docDiffs
CompareAstReturn ==
    /\ pc = "loop"
    /\ ~(i < Len(docDiffs))
    /\ pc' = "done"
    /\ UNCHANGED <<left, right, ignoreSeqOrder, i, docDiffs, unsorted, hasDiff, earlier,
                   entry, cfg, parseErr, err, stdout, cmdErr>>

\* FileDiffs.HasDiff() on the returned FileDiffs
CallHasDiff ==
    /\ pc = "done" /\ entry = "Compare"
    /\ hasDiff = <<>>
    /\ hasDiff' = <<HasDiff(docDiffs)>>
    /\ UNCHANGED <<left, right, ignoreSeqOrder, pc, i, docDiffs, unsorted, earlier,
                   entry, cfg, parseErr, err, stdout, cmdErr>>

\* The caller invokes CompareAst on the same two inputs once more
CompareAgain ==
    /\ pc = "done" /\ entry = "Compare"
    /\ earlier' = <<docDiffs>>
    /\ pc' = "idle"
    /\ i' = 0
    /\ docDiffs' = <<>>
    /\ unsorted' = <<>>
    /\ hasDiff' = <<>>
    /\ UNCHANGED <<left, right, ignoreSeqOrder, entry, cfg, parseErr, err, stdout, cmdErr>>

\* runCommand after CompareFile has returned an error: "failed to compare files: %w"
RunCommandCompareError ==
    /\ pc = "failed" /\ entry = "runCommand"
    /\ cmdErr' = "failed to compare files: " \o err
    /\ pc' = "exited"
    /\ UNCHANGED <<left, right, ignoreSeqOrder, i, docDiffs, unsorted, hasDiff, earlier,
                   entry, cfg, parseErr, err, stdout>>

\* runCommand after CompareFile has returned the diffs: Format, Fprintf of a non-empty
\* output and a newline, and the error of --exit-code
RunCommandReport ==
    /\ pc = "done" /\ entry = "runCommand"
    /\ LET output == Format(docDiffs, formatOptions(cfg))
       IN stdout' = IF output # <<>> THEN output \o <<"\n">> ELSE <<>>
    /\ cmdErr' = exitError(cfg.exitOnDifference, HasDiff(docDiffs))
    /\ pc' = "exited"
    /\ UNCHANGED <<left, right, ignoreSeqOrder, i, docDiffs, unsorted, hasDiff, earlier,
                   entry, cfg, parseErr, err>>

Next ==
    \/ RunCommandInvalidColor
    \/ CompareParseError
    \/ RunCommandCompareError
    \/ RunCommandReport
    \/ CompareAstBegin
    \/ CompareAstDoc
    \/ CompareAstReturn
    \/ CallHasDiff
    \/ CompareAgain

Spec == Init /\ [][Next]_vars

(***************************************************************************)
(* Helpers of the properties.                                              *)
(***************************************************************************)
\* the body of document k of a stream, nil when the stream has no document k
DocAt(f, k) == IF k <= Len(f) THEN f[k] ELSE Nil

\* the node without the positions and paths the parser gave it
RECURSIVE Unparse(_)
Unparse(n) ==
    [n EXCEPT !.Line = 0, !.Path = <<>>,
              !.Values = [k \in 1..Len(n.Values) |-> Unparse(n.Values[k])]]

KeysAt(n) == {KeyString(n.Values[k]) : k \in 1..Len(n.Values)}
ValueOf(n, key) == MVValue(n.Values[CHOOSE k \in 1..Len(n.Values) : KeyString(n.Values[k]) = key])

\* the differences of ds at or below the mapping key
Under(ds, key) ==
    SelectSeq(ds, LAMBDA d : Len(DiffPath(d)) > 0 /\ DiffPath(d)[1] = "." \o key)

\* the node whose line orders the difference
LineNode(d) == IF d.leftNode = Nil THEN d.rightNode ELSE d.leftNode

\* <<type, path>> of every difference of ds
Summary(ds) == [k \in 1..Len(ds) |-> <<Type(ds[k]), DiffPath(ds[k])>>]

IsIntSeq(n) ==
    n.Type = "Sequence" /\ \A k \in 1..Len(n.Values) : n.Values[k].Type = "Integer"

Count(s, v) == Cardinality({k \in 1..Len(s) : s[k].Value = v})

IsPermutation(s, t) ==
    /\ Len(s) = Len(t)
    /\ \A k \in 1..Len(s) : Count(s, s[k].Value) = Count(t, s[k].Value)

Index(k) == "[" \o ToString(k) \o "]"

IsCompared(k) == k \in 1..Len(unsorted)

(***************************************************************************)
(* C1: comparing a node with itself yields no difference, whatever the     *)
(* kind of the node and the depth of its nesting, in positional mode and   *)
(* in order-insensitive mode.                                              *)
(***************************************************************************)
C1_SelfCompareEmpty ==
    \A k \in 1..Len(unsorted) :
        (DocAt(left, k) # Nil /\ DocAt(left, k) = DocAt(right, k)) => unsorted[k] = <<>>

\* a sequence that holds a mapping was compared with itself, ignoring the order
C1_Witness ==
    /\ pc = "done" /\ ignoreSeqOrder /\ Len(left) = 1 /\ Len(right) = 1
    /\ left[1] = right[1]
    /\ left[1].Type = "Sequence" /\ Len(left[1].Values) = 2
    /\ left[1].Values[1].Type = "Mapping"
    /\ unsorted = << <<>> >>

(***************************************************************************)
(* C2: comparing an absent node with a present node n (a Null scalar       *)
(* included) yields exactly one difference, Added, at the path of n and    *)
(* referencing n; comparing n with an absent node yields exactly one       *)
(* difference, Deleted, at the same path; no descendant of n is reported.  *)
(***************************************************************************)
C2_AbsentAgainstPresent ==
    \A k \in 1..Len(unsorted) :
        LET l == DocAt(left, k)
            r == DocAt(right, k)
            ds == unsorted[k]
        IN /\ (l = Nil /\ r # Nil) =>
                /\ Len(ds) = 1
                /\ Type(ds[1]) = Added
                /\ DiffPath(ds[1]) = getNodePath(r)
                /\ ds[1].rightNode = r
           /\ (l # Nil /\ r = Nil) =>
                /\ Len(ds) = 1
                /\ Type(ds[1]) = Deleted
                /\ DiffPath(ds[1]) = getNodePath(l)
                /\ ds[1].leftNode = l

\* an absent document was compared with a mapping, and a Null scalar with an absent document
C2_Witness ==
    /\ pc = "done" /\ Len(unsorted) = 2
    /\ DocAt(left, 1) = Nil /\ DocAt(right, 1).Type = "Mapping"
    /\ DocAt(left, 2).Type = "Null" /\ DocAt(right, 2) = Nil
    /\ Summary(unsorted[1]) = << <<Added, <<>> >> >>
    /\ Summary(unsorted[2]) = << <<Deleted, <<>> >> >>

(***************************************************************************)
(* C3: the example of the README, in its block layout and in default       *)
(* mode, yields exactly four differences, sorted as: Modified .name,       *)
(* Deleted .city, Added .age, Modified .items[1].                          *)
(***************************************************************************)
IsReadmeExample ==
    /\ left = ParseFile(<<ReadmeLeft>>, FALSE)
    /\ right = ParseFile(<<ReadmeRight>>, FALSE)
    /\ ~ignoreSeqOrder

C3_ReadmeExample ==
    (IsReadmeExample /\ pc = "done") =>
        /\ Len(docDiffs) = 1
        /\ Summary(docDiffs[1]) = << <<Modified, <<".name">> >>,
                                     <<Deleted, <<".city">> >>,
                                     <<Added, <<".age">> >>,
                                     <<Modified, <<".items", "[1]">> >> >>

C3_Witness ==
    /\ IsReadmeExample /\ pc = "done"
    /\ Len(docDiffs[1]) = 4
    /\ docDiffs[1][4].leftNode.Value = "bar" /\ docDiffs[1][4].rightNode.Value = "baz"

(***************************************************************************)
(* C4: for two mappings L and R, compareMappingNodes reports exactly: one  *)
(* Deleted difference for each key of L that R lacks, one Added difference *)
(* for each key of R that L lacks, and for each key of both the            *)
(* differences of compareNodes on the two values; a key of both with equal *)
(* values contributes nothing and every difference belongs to one key.     *)
(***************************************************************************)
C4_MappingDifferences ==
    \A k \in 1..Len(unsorted) :
        LET l == DocAt(left, k)
            r == DocAt(right, k)
            ds == unsorted[k]
        IN (l.Type = "Mapping" /\ r.Type = "Mapping") =>
            /\ \A key \in KeysAt(l) \ KeysAt(r) :
                    Under(ds, key) = <<newDiff(ValueOf(l, key), Nil)>>
            /\ \A key \in KeysAt(r) \ KeysAt(l) :
                    Under(ds, key) = <<newDiff(Nil, ValueOf(r, key))>>
            /\ \A key \in KeysAt(l) \cap KeysAt(r) :
                /\ \E order \in KeyOrders(KeysOf(l) \cup KeysOf(r)) :
                      Under(ds, key) =
                          compareNodes(ValueOf(l, key), ValueOf(r, key), ignoreSeqOrder, order)
                /\ Unparse(ValueOf(l, key)) = Unparse(ValueOf(r, key)) => Under(ds, key) = <<>>
            /\ \A j \in 1..Len(ds) :
                    \E key \in KeysAt(l) \cup KeysAt(r) : Under(<<ds[j]>>, key) # <<>>

\* {a: 1, b: 1, c: 1} against {a: 2, b: 1} and the like: one key modified, one equal, one
\* deleted; and a mapping with a key only the right side has
C4_Witness ==
    /\ pc = "done" /\ Len(unsorted) = 1
    /\ left[1].Type = "Mapping" /\ right[1].Type = "Mapping"
    /\ KeysAt(left[1]) = {"a", "b", "c"} /\ KeysAt(right[1]) = {"a", "b"}
    /\ {Summary(unsorted[1])[j] : j \in 1..Len(unsorted[1])} =
            { <<Modified, <<".a">> >>, <<Deleted, <<".c">> >> }

(***************************************************************************)
(* C5: in positional mode, for two sequences of integers L and R, there is *)
(* a difference at index j exactly when j < min(len L, len R) and L[j]     *)
(* differs from R[j] (Modified), or min <= j < max (Deleted when L is the  *)
(* longer, Added when R is the longer); [1,2,3,4,5] against [4,5] gives    *)
(* Modified at 0 and 1 and Deleted at 2, 3 and 4.                          *)
(***************************************************************************)
PositionalExpected(l, r) ==
    LET ll == Len(l.Values)
        lr == Len(r.Values)
    IN { <<Modified, <<Index(j - 1)>> >> :
            j \in {j \in 1..Max(ll, lr) : j <= ll /\ j <= lr /\ l.Values[j].Value # r.Values[j].Value} }
       \cup { <<Deleted, <<Index(j - 1)>> >> : j \in (lr + 1)..ll }
       \cup { <<Added, <<Index(j - 1)>> >> : j \in (ll + 1)..lr }

C5_PositionalSequences ==
    /\ \A k \in 1..Len(unsorted) :
        LET l == DocAt(left, k)
            r == DocAt(right, k)
            ds == unsorted[k]
        IN (IsIntSeq(l) /\ IsIntSeq(r) /\ ~ignoreSeqOrder) =>
            /\ {Summary(ds)[j] : j \in 1..Len(ds)} = PositionalExpected(l, r)
            /\ Len(ds) = Cardinality(PositionalExpected(l, r))
    /\ (/\ IsCompared(1) /\ ~ignoreSeqOrder
        /\ Unparse(DocAt(left, 1)) = IntList(<<1, 2, 3, 4, 5>>)
        /\ Unparse(DocAt(right, 1)) = IntList(<<4, 5>>)) =>
            Summary(unsorted[1]) = << <<Modified, <<"[0]">> >>, <<Modified, <<"[1]">> >>,
                                      <<Deleted, <<"[2]">> >>, <<Deleted, <<"[3]">> >>,
                                      <<Deleted, <<"[4]">> >> >>

\* [4,5] against [1,2,3,4,5]: two modified and three added elements
C5_Witness ==
    /\ pc = "done" /\ ~ignoreSeqOrder /\ Len(unsorted) = 1
    /\ Unparse(left[1]) = IntList(<<4, 5>>)
    /\ Unparse(right[1]) = IntList(<<1, 2, 3, 4, 5>>)
    /\ Len(unsorted[1]) = 5
    /\ Type(unsorted[1][3]) = Added

(***************************************************************************)
(* C6: in order-insensitive mode a sequence of integers compared with any  *)
(* permutation of itself yields no difference; in positional mode          *)
(* [1,2,3,4,5] against [5,4,3,2,1] yields exactly four differences,        *)
(* Modified at the indices 0, 1, 3 and 4.                                  *)
(***************************************************************************)
IsReversedExample ==
    /\ Len(left) = 1 /\ Len(right) = 1
    /\ Unparse(left[1]) = IntList(<<1, 2, 3, 4, 5>>)
    /\ Unparse(right[1]) = IntList(<<5, 4, 3, 2, 1>>)

C6_PermutationCancels ==
    /\ \A k \in 1..Len(unsorted) :
        LET l == DocAt(left, k)
            r == DocAt(right, k)
        IN (ignoreSeqOrder /\ IsIntSeq(l) /\ IsIntSeq(r) /\ IsPermutation(l.Values, r.Values))
                => unsorted[k] = <<>>
    /\ (IsReversedExample /\ ~ignoreSeqOrder /\ pc = "done") =>
            Summary(docDiffs[1]) = << <<Modified, <<"[0]">> >>, <<Modified, <<"[1]">> >>,
                                      <<Modified, <<"[3]">> >>, <<Modified, <<"[4]">> >> >>

\* the reversed list was compared ignoring the order and nothing was reported
C6_Witness ==
    /\ IsReversedExample /\ ignoreSeqOrder /\ pc = "done"
    /\ docDiffs = << <<>> >>

(***************************************************************************)
(* C7: within the difference list of a document, differences on the same   *)
(* source line are ordered Deleted before Modified before Added.           *)
(***************************************************************************)
TypeRank(t) == IF t = Deleted THEN 0 ELSE IF t = Modified THEN 1 ELSE 2

C7_SameLineDeletedModifiedAdded ==
    pc = "done" =>
        \A k \in 1..Len(docDiffs) : \A a, b \in 1..Len(docDiffs[k]) :
            (a < b /\ LineNode(docDiffs[k][a]).Line = LineNode(docDiffs[k][b]).Line)
                => TypeRank(Type(docDiffs[k][a])) <= TypeRank(Type(docDiffs[k][b]))

(***************************************************************************)
(* C8: within the difference list of a document the differences are in     *)
(* non-decreasing order of source line, the line of a difference being the *)
(* line of its left node when it has one and of its right node otherwise.  *)
(***************************************************************************)
C8_SortedByLine ==
    \A k \in 1..Len(docDiffs) : \A a, b \in 1..Len(docDiffs[k]) :
        a < b => LineNode(docDiffs[k][a]).Line <= LineNode(docDiffs[k][b]).Line

\* the comparator returned the differences out of line order and the sort moved them
C8_Witness ==
    /\ pc = "done" /\ Len(docDiffs) = 1 /\ Len(docDiffs[1]) >= 3
    /\ \E a, b \in 1..Len(unsorted[1]) :
            a < b /\ LineNode(unsorted[1][a]).Line > LineNode(unsorted[1][b]).Line
    /\ LineNode(docDiffs[1][1]).Line < LineNode(docDiffs[1][Len(docDiffs[1])]).Line

(***************************************************************************)
(* C9: repeated invocations of the comparison on the same two inputs       *)
(* return the difference lists in the identical order.                     *)
(***************************************************************************)
C9_SameOrderEveryRun ==
    pc = "done" => \A k \in 1..Len(earlier) : earlier[k] = docDiffs

(***************************************************************************)
(* C10: FileDiffs.HasDiff() is true if and only if at least one DocDiffs   *)
(* of the FileDiffs is non-empty; it is false for an empty FileDiffs and   *)
(* for a FileDiffs all of whose documents have no difference.              *)
(***************************************************************************)
C10_HasDiffIffSomeDocDiffers ==
    hasDiff # <<>> =>
        /\ hasDiff[1] = TRUE <=> \E k \in 1..Len(docDiffs) : docDiffs[k] # <<>>
        /\ Len(docDiffs) = 0 => hasDiff[1] = FALSE

\* the first document has no difference, the second has one, and HasDiff answered true
C10_Witness ==
    /\ hasDiff = <<TRUE>>
    /\ Len(docDiffs) = 2 /\ docDiffs[1] = <<>> /\ docDiffs[2] # <<>>

\* HasDiff answered false for an empty FileDiffs
C10_WitnessEmpty == hasDiff = <<FALSE>> /\ docDiffs = <<>>

(***************************************************************************)
(* C11: CompareAst returns exactly max(number of left documents, number of *)
(* right documents) DocDiffs entries, whichever stream is the longer, and  *)
(* entry k is the sorted comparison of document k of the left stream with  *)
(* document k of the right stream.                                         *)
(***************************************************************************)
C11_OneEntryPerDocument ==
    pc = "done" =>
        /\ Len(docDiffs) >= Len(left) /\ Len(docDiffs) >= Len(right)
        /\ Len(docDiffs) \in {Len(left), Len(right)}
        /\ \A k \in 1..Len(docDiffs) :
            \E order \in KeyOrders(KeysOf(DocAt(left, k)) \cup KeysOf(DocAt(right, k))) :
                docDiffs[k] =
                    Sort(compareNodes(DocAt(left, k), DocAt(right, k), ignoreSeqOrder, order))

\* the right stream is the longer one: one document against two, two entries
C11_Witness ==
    /\ pc = "done" /\ Len(left) = 1 /\ Len(right) = 2 /\ Len(docDiffs) = 2
    /\ left[1] # Nil /\ right[2] # Nil
    /\ docDiffs[2] # <<>>

(***************************************************************************)
(* C12 as stated: for every document index that exists on only one side,   *)
(* that document's difference list holds exactly one difference, at the    *)
(* root path, Deleted when only the left document exists and Added when    *)
(* only the right document exists.                                         *)
(***************************************************************************)
C12_OneSidedDocument ==
    pc = "done" =>
        \A k \in 1..Len(docDiffs) :
            /\ (k <= Len(left) /\ k > Len(right)) =>
                    Summary(docDiffs[k]) = << <<Deleted, <<>> >> >>
            /\ (k > Len(left) /\ k <= Len(right)) =>
                    Summary(docDiffs[k]) = << <<Added, <<>> >> >>

(***************************************************************************)
(* C12 amended: for every document index that exists on only one side, the *)
(* difference list of that document holds exactly one difference, at the   *)
(* root path, Deleted (left only) or Added (right only), when the document *)
(* has a root node; when the document is empty its difference list is      *)
(* empty.  In both cases the comparison returns normally.                  *)
(***************************************************************************)
C12_OneSidedPresentDocument ==
    pc = "done" =>
        \A k \in 1..Len(docDiffs) :
            /\ (k <= Len(left) /\ k > Len(right)) =>
                    IF left[k] # Nil
                    THEN docDiffs[k] = <<newDiff(left[k], Nil)>>
                         /\ Summary(docDiffs[k]) = << <<Deleted, <<>> >> >>
                    ELSE docDiffs[k] = <<>>
            /\ (k > Len(left) /\ k <= Len(right)) =>
                    IF right[k] # Nil
                    THEN docDiffs[k] = <<newDiff(Nil, right[k])>>
                         /\ Summary(docDiffs[k]) = << <<Added, <<>> >> >>
                    ELSE docDiffs[k] = <<>>

\* two documents against one: the second, a mapping, is reported as one Deleted root
C12_Witness ==
    /\ pc = "done" /\ Len(left) = 2 /\ Len(right) = 1
    /\ left[2].Type = "Mapping"
    /\ docDiffs[1] = <<>>
    /\ Summary(docDiffs[2]) = << <<Deleted, <<>> >> >>

(***************************************************************************)
(* C13: if parsing (or reading) the left or the right input fails, Compare *)
(* and CompareFile return the parser's error unchanged and a nil           *)
(* FileDiffs; the node comparator is never invoked and nothing of a result *)
(* is returned.  (Go's nil FileDiffs is the FileDiffs of length 0.)        *)
(***************************************************************************)
C13_ParseErrorReturned ==
    /\ parseErr # <<NoError, NoError>> =>
        /\ pc \notin {"loop", "done"}
        /\ unsorted = <<>> /\ docDiffs = <<>>
    /\ pc = "failed" => err # NoError /\ err \in {parseErr[1], parseErr[2]}
    /\ pc \in {"loop", "done"} => err = NoError

\* the left input parsed to two documents, the right file does not exist
C13_Witness ==
    /\ pc = "failed" /\ entry = "Compare"
    /\ Len(left) = 2 /\ left[2] # Nil
    /\ parseErr = <<NoError, "open: no such file or directory">>
    /\ err = "open: no such file or directory"
    /\ docDiffs = <<>>

(***************************************************************************)
(* C14: no difference of any result has both its left node and its right   *)
(* node absent; comparing two absent document roots yields the empty list  *)
(* instead, in positional mode and in order-insensitive mode.              *)
(***************************************************************************)
C14_NeverBothAbsent ==
    /\ \A k \in 1..Len(unsorted) :
        /\ \A j \in 1..Len(unsorted[k]) :
                unsorted[k][j].leftNode # Nil \/ unsorted[k][j].rightNode # Nil
        /\ (DocAt(left, k) = Nil /\ DocAt(right, k) = Nil) => unsorted[k] = <<>>
    /\ \A k \in 1..Len(docDiffs) : \A j \in 1..Len(docDiffs[k]) :
            docDiffs[k][j].leftNode # Nil \/ docDiffs[k][j].rightNode # Nil

\* an empty document was compared with an empty document, ignoring the order
C14_Witness ==
    /\ pc = "done" /\ ignoreSeqOrder
    /\ Len(left) = 2 /\ Len(right) = 2
    /\ left[2] = Nil /\ right[2] = Nil /\ left[1] # Nil
    /\ unsorted[2] = <<>>

(***************************************************************************)
(* C15: when both nodes are present and their kinds are incompatible (they *)
(* differ and are not both String or Literal), compareNodes returns        *)
(* exactly one difference, Modified, referencing the two nodes themselves, *)
(* and nothing below them; so for Integer against Float, Null against a    *)
(* kind that is not Null, and Mapping against Sequence.                    *)
(***************************************************************************)
Incompatible(l, r) ==
    /\ l # Nil /\ r # Nil
    /\ l.Type # r.Type
    /\ ~({l.Type, r.Type} \subseteq {"String", "Literal"})

C15_IncompatibleKinds ==
    \A k \in 1..Len(unsorted) :
        Incompatible(DocAt(left, k), DocAt(right, k)) =>
            /\ unsorted[k] = <<newDiff(DocAt(left, k), DocAt(right, k))>>
            /\ Type(unsorted[k][1]) = Modified
            /\ DiffPath(unsorted[k][1]) = <<>>

\* a mapping was compared with a sequence: one Modified difference at the root
C15_Witness ==
    /\ pc = "done" /\ Len(left) = 1 /\ Len(right) = 1
    /\ left[1].Type = "Mapping" /\ Len(left[1].Values) = 2
    /\ right[1].Type = "Sequence" /\ Len(right[1].Values) = 2
    /\ Summary(unsorted[1]) = << <<Modified, <<>> >> >>

(***************************************************************************)
(* C16: a String node and a Literal node are comparable; String against    *)
(* Literal, String against String and Literal against Literal yield no     *)
(* difference exactly when the two texts are equal, and one Modified        *)
(* difference referencing the two nodes otherwise.                         *)
(***************************************************************************)
C16_StringAndLiteral ==
    \A k \in 1..Len(unsorted) :
        LET l == DocAt(left, k)
            r == DocAt(right, k)
        IN (l.Type \in {"String", "Literal"} /\ r.Type \in {"String", "Literal"}) =>
            /\ l.Value = r.Value <=> unsorted[k] = <<>>
            /\ l.Value # r.Value =>
                    unsorted[k] = <<newDiff(l, r)>> /\ Type(unsorted[k][1]) = Modified

\* a literal was compared with a string of the same text, and nothing was reported
C16_Witness ==
    /\ pc = "done" /\ Len(left) = 1 /\ Len(right) = 1
    /\ left[1].Type = "Literal" /\ right[1].Type = "String"
    /\ left[1].Value = right[1].Value
    /\ unsorted = << <<>> >>

(***************************************************************************)
(* C17: for every pair of Null nodes and for every pair of NaN nodes       *)
(* compareNodes yields no difference, whatever their spelling, line and    *)
(* path: as document roots, and as the elements of [~, 1] and [1, null]    *)
(* (of [.nan, 1] and [1, .NaN]) that order-insensitive mode compares       *)
(* across the indices.                                                     *)
(***************************************************************************)
IsMovedScalarExample ==
    /\ Len(left) = 1 /\ Len(right) = 1
    /\ <<Unparse(left[1]), Unparse(right[1])>> \in {<<NullFirst, NullLast>>, <<NanFirst, NanLast>>}

C17_NullAndNanEqual ==
    /\ \A k \in 1..Len(unsorted) :
        LET l == DocAt(left, k)
            r == DocAt(right, k)
        IN (l.Type = r.Type /\ l.Type \in {"Null", "Nan"}) => unsorted[k] = <<>>
    /\ (IsMovedScalarExample /\ ignoreSeqOrder /\ IsCompared(1)) => unsorted[1] = <<>>

\* ~ at [0] on line 1 was matched with null at [1] on line 2
C17_Witness ==
    /\ pc = "done" /\ ignoreSeqOrder /\ IsMovedScalarExample
    /\ left[1].Values[1].Value = "~" /\ right[1].Values[2].Value = "null"
    /\ left[1].Values[1].Line # right[1].Values[2].Line
    /\ left[1].Values[1].Path # right[1].Values[2].Path
    /\ unsorted = << <<>> >>

(***************************************************************************)
(* C18: Diff.Type() is Added exactly when the left node is absent, Deleted *)
(* exactly when the left node is present and the right node absent, and    *)
(* Modified exactly when both are present; Diff.Path() is the path of the  *)
(* right node for Added and of the left node for Deleted and Modified.     *)
(***************************************************************************)
NodePath(n) == IF n.Path # <<>> /\ Head(n.Path) = "$" THEN Tail(n.Path) ELSE n.Path

C18_TypeAndPath ==
    \A k \in 1..Len(docDiffs) : \A j \in 1..Len(docDiffs[k]) :
        LET d == docDiffs[k][j]
        IN /\ Type(d) = Added <=> d.leftNode = Nil
           /\ Type(d) = Deleted <=> (d.leftNode # Nil /\ d.rightNode = Nil)
           /\ Type(d) = Modified <=> (d.leftNode # Nil /\ d.rightNode # Nil)
           /\ Type(d) = Added => DiffPath(d) = NodePath(d.rightNode)
           /\ Type(d) \in {Deleted, Modified} => DiffPath(d) = NodePath(d.leftNode)

\* the README example: a Modified, a Deleted and an Added difference, each below the root
C18_Witness ==
    /\ IsReadmeExample /\ pc = "done" /\ Len(docDiffs[1]) = 4
    /\ \E a, b, c \in 1..4 :
        /\ Type(docDiffs[1][a]) = Added /\ DiffPath(docDiffs[1][a]) = <<".age">>
        /\ Type(docDiffs[1][b]) = Deleted /\ DiffPath(docDiffs[1][b]) = <<".city">>
        /\ Type(docDiffs[1][c]) = Modified /\ DiffPath(docDiffs[1][c]) = <<".items", "[1]">>

(***************************************************************************)
(* C19: with --exit-code set, runCommand (having read and parsed both      *)
(* files) returns the "differences found" error if and only if the         *)
(* comparison of some document yielded a difference; for two files without *)
(* differences it returns no error, whatever the number of documents.      *)
(* Without the flag it never returns that error.                           *)
(***************************************************************************)
Compared == pc = "exited" /\ err = NoError /\ validateColorFlag(cfg) = NoError

C19_ExitCodeIffDifferent ==
    Compared =>
        /\ cfg.exitOnDifference =>
            (cmdErr = DifferencesFound <=> \E k \in 1..Len(unsorted) : unsorted[k] # <<>>)
        /\ (cfg.exitOnDifference /\ left = right) => cmdErr = NoError
        /\ ~cfg.exitOnDifference => cmdErr = NoError
        /\ cmdErr \in {NoError, DifferencesFound}

\* two files of two documents each, the same first document and another second one
C19_Witness ==
    /\ Compared /\ cfg.exitOnDifference
    /\ Len(left) = 2 /\ Len(right) = 2
    /\ unsorted[1] = <<>> /\ unsorted[2] # <<>>
    /\ cmdErr = DifferencesFound

(***************************************************************************)
(* C20: when the two compared files have no differences, runCommand (run   *)
(* without --counts) writes nothing but whitespace to its output, also     *)
(* when the files hold more than one document.                             *)
(***************************************************************************)
C20_NoOutputWithoutDifference ==
    (Compared /\ ~cfg.counts /\ \A k \in 1..Len(docDiffs) : docDiffs[k] = <<>>)
        => IsBlank(stdout)

(***************************************************************************)
(* Equality of two values when the order of sequence entries does not      *)
(* count: the same kind (String and Literal being one kind), equal scalar  *)
(* values (any two Null and any two NaN are equal), the same keys with     *)
(* equal values, and sequences of which one is a reordering of the other.  *)
(***************************************************************************)
RECURSIVE SameValue(_, _)
SameValue(a, b) ==
    IF a = Nil \/ b = Nil THEN a = b
    ELSE IF a.Type \in {"String", "Literal"} THEN b.Type \in {"String", "Literal"} /\ a.Value = b.Value
    ELSE IF a.Type # b.Type THEN FALSE
    ELSE IF a.Type = "Mapping" THEN
        /\ KeysAt(a) = KeysAt(b)
        /\ \A key \in KeysAt(a) : SameValue(ValueOf(a, key), ValueOf(b, key))
    ELSE IF a.Type = "Sequence" THEN
        /\ Len(a.Values) = Len(b.Values)
        /\ \A k \in 1..Len(a.Values) :
              Cardinality({j \in 1..Len(a.Values) : SameValue(a.Values[k], a.Values[j])})
                = Cardinality({j \in 1..Len(b.Values) : SameValue(a.Values[k], b.Values[j])})
    ELSE a.Type \in {"Null", "Nan"} \/ a.Value = b.Value

(***************************************************************************)
(* C21: in order-insensitive mode the comparison of two sequences yields   *)
(* no difference only if one sequence is a reordering of the other; so     *)
(* [{a: 1, b: 2}] against [{a: 2, b: 1}] and [{a: 1}] against [{b: 1}] are *)
(* never reported as having no difference.                                 *)
(***************************************************************************)
C21_EmptyOnlyForReordering ==
    \A k \in 1..Len(unsorted) :
        LET l == DocAt(left, k)
            r == DocAt(right, k)
        IN (ignoreSeqOrder /\ l.Type = "Sequence" /\ r.Type = "Sequence" /\ unsorted[k] = <<>>)
                => SameValue(l, r)

(***************************************************************************)
(* C22: for two sequences of integers L and R compared in                  *)
(* order-insensitive mode, the left values that the reported differences   *)
(* carry are the multiset L minus R and the right values are R minus L;    *)
(* [1,2,3,4,5,8] against [9,3,2,5,4,6,7] leaves exactly (1,9), (8,6) and   *)
(* (absent,7), and [1,2,3,4,5] against [4,5] leaves exactly three Deleted  *)
(* differences, for 1, 2 and 3.                                            *)
(***************************************************************************)
Minus(a, b) == IF a > b THEN a - b ELSE 0

\* how many differences of ds carry the value v on the left, on the right
CarriedLeft(ds, v) == Cardinality({j \in 1..Len(ds) : ds[j].leftNode # Nil /\ ds[j].leftNode.Value = v})
CarriedRight(ds, v) == Cardinality({j \in 1..Len(ds) : ds[j].rightNode # Nil /\ ds[j].rightNode.Value = v})

\* <<left value, right value>> of every difference, "" for an absent node
Carried(ds) == [j \in 1..Len(ds) |-> <<ds[j].leftNode.Value, ds[j].rightNode.Value>>]

IsLists(l, r) ==
    /\ Len(left) = 1 /\ Len(right) = 1
    /\ Unparse(left[1]) = IntList(l) /\ Unparse(right[1]) = IntList(r)

C22_MultisetDifference ==
    /\ \A k \in 1..Len(unsorted) :
        LET l == DocAt(left, k)
            r == DocAt(right, k)
            ds == unsorted[k]
        IN (ignoreSeqOrder /\ IsIntSeq(l) /\ IsIntSeq(r)) =>
            \A v \in {l.Values[j].Value : j \in 1..Len(l.Values)}
                        \cup {r.Values[j].Value : j \in 1..Len(r.Values)} :
                /\ CarriedLeft(ds, v) = Minus(Count(l.Values, v), Count(r.Values, v))
                /\ CarriedRight(ds, v) = Minus(Count(r.Values, v), Count(l.Values, v))
    /\ (ignoreSeqOrder /\ IsCompared(1) /\ IsLists(<<1, 2, 3, 4, 5, 8>>, <<9, 3, 2, 5, 4, 6, 7>>)) =>
            /\ Len(unsorted[1]) = 3
            /\ {Carried(unsorted[1])[j] : j \in 1..3} = { <<"1", "9">>, <<"8", "6">>, <<"", "7">> }
    /\ (ignoreSeqOrder /\ IsCompared(1) /\ IsLists(<<1, 2, 3, 4, 5>>, <<4, 5>>)) =>
            /\ Len(unsorted[1]) = 3
            /\ \A j \in 1..3 : Type(unsorted[1][j]) = Deleted
            /\ {Carried(unsorted[1])[j] : j \in 1..3} = { <<"1", "">>, <<"2", "">>, <<"3", "">> }

\* the lists of six and seven elements were compared ignoring the order: three are left
C22_Witness ==
    /\ pc = "done" /\ ignoreSeqOrder
    /\ IsLists(<<1, 2, 3, 4, 5, 8>>, <<9, 3, 2, 5, 4, 6, 7>>)
    /\ Len(docDiffs[1]) = 3
    /\ \E j \in 1..3 : Type(docDiffs[1][j]) = Added /\ docDiffs[1][j].rightNode.Value = "7"

(***************************************************************************)
(* C23: within the difference list of a document no two differences have   *)
(* the same path and no path is a proper prefix of another: a subtree that *)
(* is wholly added, deleted or changed in kind is reported once, at its    *)
(* highest point, and none of its descendants is reported.                 *)
(***************************************************************************)
IsProperPrefix(p, q) == Len(p) < Len(q) /\ SubSeq(q, 1, Len(p)) = p

C23_NoNestedPaths ==
    \A k \in 1..Len(docDiffs) : \A a, b \in 1..Len(docDiffs[k]) :
        a # b =>
            /\ DiffPath(docDiffs[k][a]) # DiffPath(docDiffs[k][b])
            /\ ~IsProperPrefix(DiffPath(docDiffs[k][a]), DiffPath(docDiffs[k][b]))

\* a key whose value is a sequence of two entries was deleted, next to another difference
C23_Witness ==
    /\ pc = "done" /\ Len(docDiffs) = 1 /\ Len(docDiffs[1]) >= 2
    /\ \E j \in 1..Len(docDiffs[1]) :
        /\ Type(docDiffs[1][j]) = Deleted
        /\ docDiffs[1][j].leftNode.Type = "Sequence"
        /\ Len(docDiffs[1][j].leftNode.Values) = 2
        /\ DiffPath(docDiffs[1][j]) # <<>>

(***************************************************************************)
(* C24: a Modified difference never references two Mapping nodes nor two   *)
(* Sequence nodes: its nodes are of incompatible kinds, or compatible      *)
(* scalars with unequal values; in positional mode and after the           *)
(* re-pairing of order-insensitive mode.                                   *)
(***************************************************************************)
UnequalScalars(l, r) ==
    /\ ~IsCollection(l) /\ ~IsCollection(r)
    /\ (l.Type = r.Type \/ {l.Type, r.Type} \subseteq {"String", "Literal"})
    /\ l.Type \notin {"Null", "Nan"}
    /\ l.Value # r.Value

ModifiedIsLeaf(d) ==
    Type(d) = Modified =>
        /\ ~(d.leftNode.Type = "Mapping" /\ d.rightNode.Type = "Mapping")
        /\ ~(d.leftNode.Type = "Sequence" /\ d.rightNode.Type = "Sequence")
        /\ Incompatible(d.leftNode, d.rightNode) \/ UnequalScalars(d.leftNode, d.rightNode)

C24_ModifiedNeverTwoCollections ==
    /\ \A k \in 1..Len(unsorted) : \A j \in 1..Len(unsorted[k]) : ModifiedIsLeaf(unsorted[k][j])
    /\ \A k \in 1..Len(docDiffs) : \A j \in 1..Len(docDiffs[k]) : ModifiedIsLeaf(docDiffs[k][j])

\* seven positional differences were re-paired ignoring the order: 8 against 6 is left
C24_Witness ==
    /\ pc = "done" /\ ignoreSeqOrder
    /\ IsLists(<<1, 2, 3, 4, 5, 8>>, <<9, 3, 2, 5, 4, 6, 7>>)
    /\ Len(compareNodes(left[1], right[1], FALSE, <<>>)) = 7
    /\ \E j \in 1..Len(docDiffs[1]) :
        /\ Type(docDiffs[1][j]) = Modified
        /\ docDiffs[1][j].leftNode.Value = "8" /\ docDiffs[1][j].rightNode.Value = "6"

(***************************************************************************)
(* C25 as stated: in positional mode, a single element inserted at the     *)
(* front of a list is reported as a Modified difference at every index of  *)
(* the original list plus one Added difference at the new last index.      *)
(***************************************************************************)
\* r is l with one element pushed to its front
IsPushed(l, r) ==
    /\ IsIntSeq(l) /\ IsIntSeq(r)
    /\ Len(r.Values) = Len(l.Values) + 1
    /\ \A j \in 1..Len(l.Values) : r.Values[j + 1].Value = l.Values[j].Value

C25_PushedModifiesEveryIndex ==
    \A k \in 1..Len(unsorted) :
        LET l == DocAt(left, k)
            r == DocAt(right, k)
        IN (~ignoreSeqOrder /\ IsPushed(l, r)) =>
            Summary(unsorted[k]) =
                [j \in 1..Len(r.Values) |->
                    <<IF j <= Len(l.Values) THEN Modified ELSE Added, <<Index(j - 1)>> >>]

(***************************************************************************)
(* C25 amended: in positional mode, a single element inserted at the front *)
(* of a list is reported as a Modified difference at every index of the    *)
(* original list whose element differs from the element that now stands at *)
(* that index (so at every index when no two neighbours of the new list    *)
(* are equal) plus one Added difference at the new last index; it is never *)
(* reported as one addition at the front, unless the list was empty.       *)
(***************************************************************************)
C25_PushedModifiesShiftedIndexes ==
    \A k \in 1..Len(unsorted) :
        LET l == DocAt(left, k)
            r == DocAt(right, k)
            ds == unsorted[k]
            shifted == {j \in 1..Len(l.Values) : l.Values[j].Value # r.Values[j].Value}
        IN (~ignoreSeqOrder /\ IsPushed(l, r)) =>
            /\ {Summary(ds)[j] : j \in 1..Len(ds)} =
                    { <<Modified, <<Index(j - 1)>> >> : j \in shifted }
                        \cup { <<Added, <<Index(Len(l.Values))>> >> }
            /\ Len(ds) = Cardinality(shifted) + 1
            /\ (\A j \in 1..Len(l.Values) : r.Values[j].Value # r.Values[j + 1].Value)
                    => shifted = 1..Len(l.Values)
            /\ Len(l.Values) > 0 => \A j \in 1..Len(ds) : ds[j] # newDiff(Nil, r.Values[1])

\* 2 was pushed to the front of [1, 2]: Modified at 0 and 1, Added at 2
C25_Witness ==
    /\ pc = "done" /\ ~ignoreSeqOrder
    /\ IsLists(<<1, 2>>, <<2, 1, 2>>)
    /\ Summary(unsorted[1]) = << <<Modified, <<"[0]">> >>, <<Modified, <<"[1]">> >>,
                                 <<Added, <<"[2]">> >> >>

(***************************************************************************)
(* C26: the order of the keys of a mapping is not significant: permuting   *)
(* the key/value pairs of either mapping leaves the set of differences     *)
(* (path, type and referenced values) of compareMappingNodes unchanged.    *)
(***************************************************************************)
\* CompareAst has returned for the first time and its result has not been used yet
JustReturned == pc = "done" /\ hasDiff = <<>> /\ earlier = <<>>

\* path, type and the two values (without positions) of every difference
DiffSet(ds) ==
    {<<Type(ds[j]), DiffPath(ds[j]), Unparse(ds[j].leftNode), Unparse(ds[j].rightNode)>> :
        j \in 1..Len(ds)}

\* the document whose root mapping has the entries of n in the order p, as the parser
\* returns it in block layout
Permuted(n, p) ==
    ParseDoc([Unparse(n) EXCEPT !.Values = [j \in 1..Len(n.Values) |-> Unparse(n.Values[p[j]])]], FALSE)

\* two of the orders in which a run may visit the keys: one and its reverse
AllKeys == <<"a", "b", "c", "name", "city", "age", "items">>
TwoOrders == {AllKeys, [j \in 1..Len(AllKeys) |-> AllKeys[Len(AllKeys) + 1 - j]]}

C26_KeyOrderInsignificant ==
    \A k \in 1..Len(unsorted) :
        LET l == DocAt(left, k)
            r == DocAt(right, k)
        IN (JustReturned /\ l.Type = "Mapping" /\ r.Type = "Mapping") =>
            \A order \in TwoOrders :
                /\ \A p \in KeyOrders(1..Len(l.Values)) :
                      DiffSet(compareNodes(Permuted(l, p), r, ignoreSeqOrder, order))
                          = DiffSet(unsorted[k])
                /\ \A p \in KeyOrders(1..Len(r.Values)) :
                      DiffSet(compareNodes(l, Permuted(r, p), ignoreSeqOrder, order))
                          = DiffSet(unsorted[k])

\* {a, b, c} against {a, b} with differences; the left mapping written as {c, b, a}
\* compares to the same set
C26_Witness ==
    /\ JustReturned /\ Len(left) = 1 /\ Len(right) = 1
    /\ left[1].Type = "Mapping" /\ right[1].Type = "Mapping"
    /\ Len(left[1].Values) = 3 /\ Len(right[1].Values) = 2
    /\ Len(unsorted[1]) = 2
    /\ Permuted(left[1], <<3, 2, 1>>) # left[1]
    /\ DiffSet(compareNodes(Permuted(left[1], <<3, 2, 1>>), right[1], ignoreSeqOrder, <<"a", "b", "c">>))
            = DiffSet(unsorted[1])

(***************************************************************************)
(* C27: the differences of the order-insensitive mode are never more than  *)
(* those of the positional mode, and every one of them references only     *)
(* nodes that a positional difference at the same path references.         *)
(***************************************************************************)
\* the nodes a difference references
NodesOf(d) == {d.leftNode, d.rightNode} \ {Nil}

\* the differences of the positional mode for document k
Positional(k) == compareNodes(DocAt(left, k), DocAt(right, k), FALSE, AllKeys)

C27_RefinesPositional ==
    \A k \in 1..Len(unsorted) :
        (JustReturned /\ ignoreSeqOrder) =>
            LET ds == unsorted[k]
                pos == Positional(k)
            IN /\ Len(ds) <= Len(pos)
               /\ \A j \in 1..Len(ds) : \A n \in NodesOf(ds[j]) :
                     \E m \in 1..Len(pos) :
                        DiffPath(pos[m]) = DiffPath(ds[j]) /\ n \in NodesOf(pos[m])

\* [1, 2, 3, 4, 5] against [4, 5] ignoring the order: three differences instead of five,
\* the first a Deleted of the 1 that the positional Modified at [0] references
C27_Witness ==
    /\ JustReturned /\ ignoreSeqOrder
    /\ IsLists(<<1, 2, 3, 4, 5>>, <<4, 5>>)
    /\ Len(unsorted[1]) = 3 /\ Len(Positional(1)) = 5
    /\ Type(unsorted[1][1]) = Deleted /\ Type(Positional(1)[1]) = Modified
    /\ unsorted[1][1].leftNode = Positional(1)[1].leftNode

(***************************************************************************)
(* C28: in positional mode, comparing the inputs the other way round gives *)
(* the same differences with left and right exchanged: Added becomes       *)
(* Deleted at the same path, Deleted becomes Added, Modified stays         *)
(* Modified; and the file has as many document entries in both directions. *)
(***************************************************************************)
Mirrored(t) == IF t = Added THEN Deleted ELSE IF t = Deleted THEN Added ELSE Modified

\* d is e with left and right exchanged
IsMirror(d, e) ==
    /\ d.leftNode = e.rightNode /\ d.rightNode = e.leftNode
    /\ DiffPath(d) = DiffPath(e)
    /\ Type(d) = Mirrored(Type(e))

C28_SwapMirrors ==
    /\ JustReturned => Len(docDiffs) = Max(Len(right), Len(left))
    /\ \A k \in 1..Len(unsorted) :
        (JustReturned /\ ~ignoreSeqOrder) =>
            \A order \in TwoOrders :
                LET ds == unsorted[k]
                    sw == compareNodes(docBody(right, k - 1), docBody(left, k - 1), FALSE, order)
                IN /\ Len(sw) = Len(ds)
                   /\ \A j \in 1..Len(ds) : \E m \in 1..Len(sw) : IsMirror(sw[m], ds[j])
                   /\ \A m \in 1..Len(sw) : \E j \in 1..Len(ds) : IsMirror(sw[m], ds[j])

\* [1, 2, 3, 4, 5] against [4, 5] has a Deleted at [2], [4, 5] against [1, 2, 3, 4, 5]
\* an Added there
C28_Witness ==
    /\ JustReturned /\ ~ignoreSeqOrder
    /\ IsLists(<<1, 2, 3, 4, 5>>, <<4, 5>>)
    /\ Len(unsorted[1]) = 5
    /\ Type(unsorted[1][3]) = Deleted
    /\ Type(compareNodes(right[1], left[1], FALSE, AllKeys)[3]) = Added
    /\ Type(unsorted[1][1]) = Modified
    /\ Type(compareNodes(right[1], left[1], FALSE, AllKeys)[1]) = Modified

Tied(d, a, b) == ~Less(d, a, b) /\ ~Less(d, b, a)

StrictWeak(d) ==
    \A a \in 1..Len(d) :
        /\ ~Less(d, a, a)
        /\ \A b \in 1..Len(d) :
            /\ ~(Less(d, a, b) /\ Less(d, b, a))
            /\ \A c \in 1..Len(d) :
                /\ (Less(d, a, b) /\ Less(d, b, c)) => Less(d, a, c)
                /\ (Tied(d, a, b) /\ Tied(d, b, c)) => Tied(d, a, c)

C30_LessStrictWeak ==
    \A k \in 1..Len(unsorted) : JustReturned => StrictWeak(unsorted[k])

\* a document with two differences on one line that Less orders by their type, and
\* two on different lines that it orders by the line
C30_Witness ==
    /\ JustReturned /\ Len(unsorted) = 1
    /\ LET d == unsorted[1]
       IN \E a, b, e \in 1..Len(d) :
            /\ Type(d[a]) # Type(d[b]) /\ Less(d, a, b) /\ ~Less(d, b, a)
            /\ LineNode(d[a]).Line = LineNode(d[b]).Line
            /\ LineNode(d[e]).Line # LineNode(d[a]).Line /\ (Less(d, a, e) \/ Less(d, e, a))

====
